---- MODULE Spec2Model ----
(***************************************************************************)
(* dem2las.py: a single-band elevation raster is streamed scanline by      *)
(* scanline, every cell that differs from the no-data value becomes a      *)
(* point (x, y, z), and the accumulated points are written to successive   *)
(* .las files whenever their number exceeds `limit`.                       *)
(*                                                                         *)
(* Real numbers are fixed-point: the integer n stands for the real n/Den.  *)
(* Only axis-aligned transforms (rotation coefficient 0) are modelled,     *)
(* for which cos and sin are exact.                                        *)
(***************************************************************************)
EXTENDS Integers, Sequences, FiniteSets, TLC

VARIABLES
    pc,             \* position in main()
    argc,           \* len(argv)
    band,           \* module global, line 10
    no_data_value,  \* module global, line 11
    limit,          \* module global, line 12
    src_ds,         \* the opened GDAL dataset (<<>> before gdal.Open)
    y,              \* loop variable of the scanline loop
    xvalues,        \* buffered x coordinates
    yvalues,        \* buffered y coordinates
    zvalues,        \* buffered elevations
    file_i,         \* chunk index used in the next file name
    lasFiles,       \* files written and closed by saveLasFile, in order
    openFile,       \* file name opened by laspy and not closed (<<>> if none)
    progress,       \* what printProgress reported, in order
    stdout,         \* messages printed, in order
    exitCode,       \* <<>> while running, <<c>> once the process ended
    error           \* "none" or the uncaught exception that ended the run

vars == <<pc, argc, band, no_data_value, limit, src_ds, y, xvalues, yvalues,
          zvalues, file_i, lasFiles, openFile, progress, stdout, exitCode,
          error>>

---------------------------------------------------------------------------
(* Bounds of the model *)

\* fixed-point denominator: the integer n stands for n/Den
Den == 2
\* largest number of cells (width * height) of a generated raster
MaxCells == 4
\* largest point limit drawn besides the scenario limits
MaxLimit == 2
\* largest band count of a dataset
MaxBands == 1

\* the real number n as a fixed-point value
R(n) == n * Den

---------------------------------------------------------------------------
(* Numeric helpers *)

\* numpy.floor on a fixed-point value
Floor(v) == (v \div Den) * Den

\* smallest integer >= a / b, for b # 0
CeilDiv(a, b) ==
    IF b > 0 THEN -((-a) \div b) ELSE -(a \div (-b))

\* Python 3 round(): nearest integer to n / d (d > 0), ties to the even one
RoundHalfEven(n, d) ==
    LET q == n \div d
        r == n % d
    IN  IF 2 * r < d THEN q
        ELSE IF 2 * r > d THEN q + 1
        ELSE IF q % 2 = 0 THEN q ELSE q + 1

\* numpy cos and sin: exact only for the axis-aligned rotation 0
Cos(rot) == CASE rot = 0 -> 1
Sin(rot) == CASE rot = 0 -> 0

\* numpy.arange(start, stop, step) for step # 0
Arange(start, stop, step) ==
    LET n == CeilDiv(stop - start, step)
        len == IF n > 0 THEN n ELSE 0
    IN  [i \in 1..len |-> start + (i - 1) * step]

\* [v] * n
Repeat(v, n) == [i \in 1..n |-> v]

RECURSIVE SeqMin(_)
\* numpy.min of a non-empty array
SeqMin(s) ==
    IF Len(s) = 1 THEN s[1]
    ELSE LET m == SeqMin(Tail(s))
         IN  IF s[1] < m THEN s[1] ELSE m

RECURSIVE SelectIndices(_, _, _)
\* [i for i in range(len(zvals)) if zvals[i] != nd], as 1-based indices from i on
SelectIndices(zvals, nd, i) ==
    IF i > Len(zvals) THEN <<>>
    ELSE IF zvals[i] # nd
         THEN <<i>> \o SelectIndices(zvals, nd, i + 1)
         ELSE SelectIndices(zvals, nd, i + 1)

\* [vals[i] for i in indices]
Pick(vals, indices) == [k \in 1..Len(indices) |-> vals[indices[k]]]

---------------------------------------------------------------------------
(* Inputs: configuration, datasets *)

\* len(argv) of the invocation
ArgLens == 1..3

\* values of the module global `band`
Bands == -1..(MaxBands + 1)

\* values of the module global `limit`: small ones and the scenario limits
Limits == (0..MaxLimit) \cup {3, 100}

\* elevation samples of the generated rasters: -1/Den, 0 and 1
CellValues == {-1, 0, R(1)}

\* values of the module global `no_data_value`
Sentinels == {0, R(1)}

\* geotransforms (originX, pixelWidth, rotation, originY, rotation2, pixelHeight)
ExampleTransform == <<R(0), R(1), 0, R(0), 0, R(-1)>>
Transforms ==
    { ExampleTransform,
      <<R(2), R(0), 0, R(-1), 0, R(1)>>,
      <<R(1), R(-1), 0, R(1), 0, R(-2)>>,
      <<1, -3, 0, -1, 0, 1>> }

\* raster shapes <<width, height>> of at most MaxCells cells
Shapes ==
    { s \in (1..MaxCells) \X (1..MaxCells) : s[1] * s[2] <= MaxCells }

\* cells[row][col] of a raster of the given shape
Rasters(w, h) == [1..h -> [1..w -> CellValues]]

\* the 4 x 2 raster of the end-to-end scenario
ExampleCells ==
    << <<R(1), R(0), R(3), R(4)>>, <<R(0), R(0), R(7), R(8)>> >>

ExampleDataset ==
    [RasterCount |-> 1, XSize |-> 4, YSize |-> 2,
     transform |-> ExampleTransform, cells |-> ExampleCells]

\* what gdal.Open can return
Datasets ==
    UNION { { [RasterCount |-> n, XSize |-> s[1], YSize |-> s[2],
               transform |-> t, cells |-> c] :
                 n \in 1..MaxBands, t \in Transforms,
                 c \in Rasters(s[1], s[2]) } : s \in Shapes }
    \cup {ExampleDataset}

---------------------------------------------------------------------------
(* Functions of dem2las.py *)

\* what one call of printProgress(iteration, total, barLength = ...) shows:
\* percents in tenths of a percent, the bar's filled length, and whether the
\* closing newline is written
printProgress(iteration, total, barLength) ==
    [iteration    |-> iteration,
     total        |-> total,
     percents     |-> RoundHalfEven(1000 * iteration, total),
     filledLength |-> RoundHalfEven(barLength * iteration, total),
     newline      |-> (iteration = total)]

\* mutant of getActualPoint: y advances by the pixel width
getActualPoint_WidthForY(lx, ly, transform) ==
    << transform[1] + lx * Cos(transform[3]) * transform[2]
                    + ly * Sin(transform[3]) * transform[6],
       transform[4] + lx * Sin(transform[3]) * transform[2]
                    + ly * Cos(transform[3]) * transform[2] >>

\* getActualPoint(lx, ly, transform): transform is 1-based here
getActualPoint(lx, ly, transform) ==
    LET startx == transform[1]
        starty == transform[4]
        resx   == transform[2]
        resy   == transform[6]
        rot    == transform[3]
    IN  << startx + lx * Cos(rot) * resx + ly * Sin(rot) * resy,
           starty + lx * Sin(rot) * resx + ly * Cos(rot) * resy >>

\* "{}.{}.las".format(output_file, file_i)
FileName(output_file, i) == <<output_file, i, "las">>

\* argv[2]
output_file == "out"

\* mutant of LasContents: the offset is taken over every point written so far
LasContents_DatasetMin(xs, ys, zs, filename) ==
    LET px(f) == f.x
        py(f) == f.y
        pz(f) == f.z
        All(sel(_), cur) ==
            LET RECURSIVE Cat(_)
                Cat(k) == IF k = 0 THEN <<>> ELSE Cat(k - 1) \o sel(lasFiles[k])
            IN  Cat(Len(lasFiles)) \o cur
    IN  [filename |-> filename,
         offset   |-> <<Floor(SeqMin(All(px, xs))), Floor(SeqMin(All(py, ys))),
                        Floor(SeqMin(All(pz, zs)))>>,
         scale    |-> <<"0.001", "0.001", "0.001">>,
         x        |-> xs,
         y        |-> ys,
         z        |-> zs]

\* the header and points saveLasFile leaves in a closed file
LasContents(xs, ys, zs, filename) ==
    [filename |-> filename,
     offset   |-> <<Floor(SeqMin(xs)), Floor(SeqMin(ys)), Floor(SeqMin(zs))>>,
     scale    |-> <<"0.001", "0.001", "0.001">>,
     x        |-> xs,
     y        |-> ys,
     z        |-> zs]

\* srcband.XSize, srcband.YSize
xsize == src_ds.XSize
ysize == src_ds.YSize

\* the scanline loop's per-row x, y and z sequences (lines 123-140)
ScanlineZ(row) == src_ds.cells[row + 1]

ScanlineX(row) ==
    LET t    == src_ds.transform
        dx   == Cos(t[3]) * t[2]
        minx == getActualPoint(0, row, t)[1]
        maxx == getActualPoint(xsize, row, t)[1]
    IN  IF dx # 0 THEN Arange(minx, maxx, dx) ELSE Repeat(minx, xsize)

ScanlineY(row) ==
    LET t    == src_ds.transform
        dy   == Sin(t[3]) * t[2]
        miny == getActualPoint(0, row, t)[2]
        maxy == getActualPoint(xsize, row, t)[2]
    IN  IF dy # 0 THEN Arange(miny, maxy, dy) ELSE Repeat(miny, xsize)

\* mutant of ValidIndices: the scan for valid cells starts at the second column
ValidIndices_SkipFirst(row) == SelectIndices(ScanlineZ(row), no_data_value, 2)

\* mutant of ValidIndices: no cell is filtered out
ValidIndices_KeepAll(row) == [i \in 1..Len(ScanlineZ(row)) |-> i]

\* indices of the cells kept (line 143)
ValidIndices(row) == SelectIndices(ScanlineZ(row), no_data_value, 1)

\* mutant of ExceedsLimit: the flush also happens at exactly `limit` points
ExceedsLimit_AtLimit(n) == n >= limit

\* mutant of ExceedsLimit: the flush happens one point late
ExceedsLimit_Late(n) == n > limit + 1

\* the flush condition of line 151
ExceedsLimit(n) == n > limit

---------------------------------------------------------------------------
(* The run of main() *)

Init ==
    /\ pc = "ArgCheck"
    /\ argc \in ArgLens
    /\ band \in Bands
    /\ no_data_value \in Sentinels
    /\ limit \in Limits
    /\ src_ds = <<>>
    /\ y = -1
    /\ xvalues = <<>>
    /\ yvalues = <<>>
    /\ zvalues = <<>>
    /\ file_i = 0
    /\ lasFiles = <<>>
    /\ openFile = <<>>
    /\ progress = <<>>
    /\ stdout = <<>>
    /\ exitCode = <<>>
    /\ error = "none"

\* sys.exit(code) after printing msg
Exit(msg, code) ==
    /\ stdout' = Append(stdout, msg)
    /\ exitCode' = <<code>>
    /\ pc' = "Exited"

\* an exception nobody catches: traceback, exit status 1
Raise(exc) ==
    /\ error' = exc
    /\ exitCode' = <<1>>
    /\ pc' = "Exited"

\* mutant of ArgCheck: one argument is taken to be enough
ArgCheck_OneArgument ==
    /\ pc = "ArgCheck"
    /\ IF argc < 2
       THEN Exit("usage", 1)
       ELSE /\ pc' = "Open"
            /\ UNCHANGED <<stdout, exitCode>>
    /\ UNCHANGED <<argc, band, no_data_value, limit, src_ds, y, xvalues,
                   yvalues, zvalues, file_i, lasFiles, openFile, progress,
                   error>>

\* lines 77-83
ArgCheck ==
    /\ pc = "ArgCheck"
    /\ IF argc < 3
       THEN Exit("usage", 1)
       ELSE /\ pc' = "Open"
            /\ UNCHANGED <<stdout, exitCode>>
    /\ UNCHANGED <<argc, band, no_data_value, limit, src_ds, y, xvalues,
                   yvalues, zvalues, file_i, lasFiles, openFile, progress,
                   error>>

\* lines 86-91: gdal.Open raises RuntimeError or returns a dataset
Open ==
    /\ pc = "Open"
    /\ \/ /\ Exit("unable_to_open", 1)
          /\ UNCHANGED src_ds
       \/ /\ \E ds \in Datasets : src_ds' = ds
          /\ pc' = "Validate"
          /\ UNCHANGED <<stdout, exitCode>>
    /\ UNCHANGED <<argc, band, no_data_value, limit, y, xvalues, yvalues,
                   zvalues, file_i, lasFiles, openFile, progress, error>>

\* lines 93-95
Validate ==
    /\ pc = "Validate"
    /\ IF band > src_ds.RasterCount
       THEN Exit("band_out_of_index", 1)
       ELSE /\ pc' = "GetBand"
            /\ UNCHANGED <<stdout, exitCode>>
    /\ UNCHANGED <<argc, band, no_data_value, limit, src_ds, y, xvalues,
                   yvalues, zvalues, file_i, lasFiles, openFile, progress,
                   error>>

\* lines 98-118: GetRasterBand raises (gdal.UseExceptions, line 75) for a band
\* number below 1; otherwise the buffers and the chunk index are initialised
GetBand ==
    /\ pc = "GetBand"
    /\ IF band < 1
       THEN /\ Raise("RuntimeError")
            /\ UNCHANGED <<stdout, xvalues, yvalues, zvalues, file_i>>
       ELSE /\ stdout' = Append(stdout, "band_size")
            /\ xvalues' = <<>>
            /\ yvalues' = <<>>
            /\ zvalues' = <<>>
            /\ file_i' = 0
            /\ pc' = "Loop"
            /\ UNCHANGED <<exitCode, error>>
    /\ UNCHANGED <<argc, band, no_data_value, limit, src_ds, y, lasFiles,
                   openFile, progress>>

\* mutant of Loop: the loop stops one row early
Loop_StopsEarly ==
    /\ pc = "Loop"
    /\ IF y + 2 < ysize
       THEN /\ y' = y + 1
            /\ pc' = "ReadRow"
       ELSE /\ pc' = "FinalFlush"
            /\ UNCHANGED y
    /\ UNCHANGED <<argc, band, no_data_value, limit, src_ds, xvalues, yvalues,
                   zvalues, file_i, lasFiles, openFile, progress, stdout,
                   exitCode, error>>

\* line 121: for y in range(ysize)
Loop ==
    /\ pc = "Loop"
    /\ IF y + 1 < ysize
       THEN /\ y' = y + 1
            /\ pc' = "ReadRow"
       ELSE /\ pc' = "FinalFlush"
            /\ UNCHANGED y
    /\ UNCHANGED <<argc, band, no_data_value, limit, src_ds, xvalues, yvalues,
                   zvalues, file_i, lasFiles, openFile, progress, stdout,
                   exitCode, error>>

\* lines 123-148: read scanline y, keep the cells that are not no-data,
\* extend the buffers, report progress
ReadRow ==
    /\ pc = "ReadRow"
    /\ LET indices == ValidIndices(y)
       IN  /\ xvalues' = xvalues \o Pick(ScanlineX(y), indices)
           /\ yvalues' = yvalues \o Pick(ScanlineY(y), indices)
           /\ zvalues' = zvalues \o Pick(ScanlineZ(y), indices)
    /\ progress' = Append(progress, printProgress(y, ysize, 50))
    /\ pc' = "Threshold"
    /\ UNCHANGED <<argc, band, no_data_value, limit, src_ds, y, file_i,
                   lasFiles, openFile, stdout, exitCode, error>>

\* saveLasFile(xvalues, yvalues, zvalues, [], filename) returning normally
\* (lines 46-69), followed by the prints `after` of the caller
saveLasFile(filename, after) ==
    /\ xvalues # <<>>
    /\ lasFiles' = Append(lasFiles,
                          LasContents(xvalues, yvalues, zvalues, filename))
    /\ stdout' = stdout \o <<"writing", "saved">> \o after
    /\ UNCHANGED <<openFile, error>>

\* mutant of saveLasFileRaises: a writer failure is caught and main goes on
saveLasFileRaises_Swallowed(filename) ==
    /\ stdout' = Append(stdout, "writing")
    /\ \/ /\ xvalues = <<>>
          /\ openFile' = filename
          /\ Raise("ValueError")
       \/ /\ \E created \in BOOLEAN :
                openFile' = IF created THEN filename ELSE <<>>
          /\ error' = "IOError"
          /\ pc' = "Loop"
          /\ UNCHANGED exitCode
    /\ UNCHANGED lasFiles

\* saveLasFile raising: laspy creates the file at line 51, then numpy.min
\* raises ValueError on an empty array (lines 56-58); or the writer fails with
\* an I/O error, before or after the file exists
saveLasFileRaises(filename) ==
    /\ stdout' = Append(stdout, "writing")
    /\ \/ /\ xvalues = <<>>
          /\ openFile' = filename
          /\ Raise("ValueError")
       \/ /\ \E created \in BOOLEAN :
                openFile' = IF created THEN filename ELSE <<>>
          /\ Raise("IOError")
    /\ UNCHANGED lasFiles

\* mutant of Threshold: the chunk index is not advanced after a flush
Threshold_NoIncrement ==
    /\ pc = "Threshold"
    /\ IF ExceedsLimit(Len(xvalues))
       THEN \/ /\ saveLasFile(FileName(output_file, file_i), <<>>)
               /\ xvalues' = <<>>
               /\ yvalues' = <<>>
               /\ zvalues' = <<>>
               /\ file_i' = file_i
               /\ pc' = "Loop"
               /\ UNCHANGED exitCode
            \/ /\ saveLasFileRaises(FileName(output_file, file_i))
               /\ UNCHANGED <<xvalues, yvalues, zvalues, file_i>>
       ELSE /\ pc' = "Loop"
            /\ UNCHANGED <<xvalues, yvalues, zvalues, file_i, lasFiles,
                           openFile, stdout, exitCode, error>>
    /\ UNCHANGED <<argc, band, no_data_value, limit, src_ds, y, progress>>

\* lines 151-156: flush check after a row; a flush writes the file, empties
\* the buffers and advances the chunk index
Threshold ==
    /\ pc = "Threshold"
    /\ IF ExceedsLimit(Len(xvalues))
       THEN \/ /\ saveLasFile(FileName(output_file, file_i), <<>>)
               /\ xvalues' = <<>>
               /\ yvalues' = <<>>
               /\ zvalues' = <<>>
               /\ file_i' = file_i + 1
               /\ pc' = "Loop"
               /\ UNCHANGED exitCode
            \/ /\ saveLasFileRaises(FileName(output_file, file_i))
               /\ UNCHANGED <<xvalues, yvalues, zvalues, file_i>>
       ELSE /\ pc' = "Loop"
            /\ UNCHANGED <<xvalues, yvalues, zvalues, file_i, lasFiles,
                           openFile, stdout, exitCode, error>>
    /\ UNCHANGED <<argc, band, no_data_value, limit, src_ds, y, progress>>

\* lines 159-161: the last file, the closing message, the normal end
FinalFlush ==
    /\ pc = "FinalFlush"
    /\ \/ /\ saveLasFile(FileName(output_file, file_i), <<"done">>)
          /\ exitCode' = <<0>>
          /\ pc' = "Done"
       \/ saveLasFileRaises(FileName(output_file, file_i))
    /\ UNCHANGED <<argc, band, no_data_value, limit, src_ds, y, xvalues,
                   yvalues, zvalues, file_i, progress>>

Next ==
    \/ ArgCheck
    \/ Open
    \/ Validate
    \/ GetBand
    \/ Loop
    \/ ReadRow
    \/ Threshold
    \/ FinalFlush

Spec == Init /\ [][Next]_vars

---------------------------------------------------------------------------
(* Vocabulary of the properties *)

\* the raster has been opened
Opened == src_ds # <<>>

\* the run got past band validation and GetRasterBand
InLoop == pc \in {"Loop", "ReadRow", "Threshold", "FinalFlush"}

\* the run ended inside saveLasFile
FlushRaised == pc = "Exited" /\ error \in {"ValueError", "IOError"}

\* number of scanlines whose points have been appended to the buffers
RowsProcessed == IF pc = "ReadRow" THEN y ELSE y + 1

\* the points of a closed file, as (x, y, z) triples
FilePoints(f) == [i \in 1..Len(f.x) |-> <<f.x[i], f.y[i], f.z[i]>>]

\* the buffered points, as (x, y, z) triples
BufferPoints == [i \in 1..Len(xvalues) |-> <<xvalues[i], yvalues[i], zvalues[i]>>]

\* names of the closed files on disk
DiskNames == { lasFiles[i].filename : i \in 1..Len(lasFiles) }

\* the file on disk under a name: the last one written under it
DiskFile(name) ==
    LET last == CHOOSE i \in 1..Len(lasFiles) :
                    /\ lasFiles[i].filename = name
                    /\ \A j \in (i + 1)..Len(lasFiles) : lasFiles[j].filename # name
    IN  lasFiles[last]

RECURSIVE ChunksFrom(_)
\* the points of the files on disk, concatenated in chunk-index order from k
ChunksFrom(k) ==
    IF FileName(output_file, k) \in DiskNames
    THEN FilePoints(DiskFile(FileName(output_file, k))) \o ChunksFrom(k + 1)
    ELSE <<>>

\* the point of the cell (col, row), 0-based, by the geotransform mapper
CellPoint(col, row) ==
    LET p == getActualPoint(col, row, src_ds.transform)
    IN  <<p[1], p[2], src_ds.cells[row + 1][col + 1]>>

RECURSIVE RowCells(_, _)
\* the valid cells of a row in column order, from column col on
RowCells(row, col) ==
    IF col >= src_ds.XSize THEN <<>>
    ELSE IF src_ds.cells[row + 1][col + 1] # no_data_value
         THEN <<CellPoint(col, row)>> \o RowCells(row, col + 1)
         ELSE RowCells(row, col + 1)

RECURSIVE ScanOrder(_)
\* the valid cells of rows 0..n-1 in row-major order
ScanOrder(n) ==
    IF n <= 0 THEN <<>> ELSE ScanOrder(n - 1) \o RowCells(n - 1, 0)

\* number of cells that differ from the no-data value
TotalValidPoints ==
    Cardinality({ rc \in (1..src_ds.YSize) \X (1..src_ds.XSize) :
                    src_ds.cells[rc[1]][rc[2]] # no_data_value })

\* the end-to-end scenario of the 4 x 2 raster with the given limit
Scenario(l) ==
    /\ Opened
    /\ src_ds = ExampleDataset
    /\ no_data_value = 0
    /\ limit = l

\* the surviving points of the scenario, in scan order
ExamplePoints ==
    << <<R(0), R(0), R(1)>>, <<R(2), R(0), R(3)>>, <<R(3), R(0), R(4)>>,
       <<R(2), R(-1), R(7)>>, <<R(3), R(-1), R(8)>> >>

---------------------------------------------------------------------------
(* C1 *)

\* C1: the points of the output files, concatenated in chunk-index order, are
\* exactly the cells that differ from the no-data value, in row-major order,
\* each once: when the run is Done this is the whole raster, and while rows
\* are being streamed (and when a flush raised) the files followed by the
\* buffer are the valid cells of the rows processed so far.
C1_ScanOrderPreserved ==
    /\ pc = "Done" => ChunksFrom(0) = ScanOrder(src_ds.YSize)
    /\ (InLoop \/ FlushRaised) =>
          ChunksFrom(0) \o BufferPoints = ScanOrder(RowsProcessed)

\* a completed run with two files whose raster holds a no-data cell
C1_Witness ==
    /\ pc = "Done"
    /\ Len(lasFiles) >= 2
    /\ TotalValidPoints < src_ds.XSize * src_ds.YSize

---------------------------------------------------------------------------
(* C2 *)

\* C2 as stated: a completed run with limit >= 1 writes
\* floor(totalValidPoints / limit) + 1 files.
C2_FileCountFormula ==
    (pc = "Done" /\ limit >= 1) =>
        Len(lasFiles) = (TotalValidPoints \div limit) + 1

\* C2 as amended: a completed run with limit >= 1 writes n >= 1 files with
\* (n-1)*(limit+1) + 1 <= totalValidPoints <= (n-1)*(limit+width) + limit:
\* every file but the last holds more than limit and at most limit + width
\* points, the last one between 1 and limit.
C2_FileCountBounds ==
    (pc = "Done" /\ limit >= 1) =>
        LET n == Len(lasFiles)
        IN  /\ n >= 1
            /\ (n - 1) * (limit + 1) + 1 <= TotalValidPoints
            /\ TotalValidPoints <= (n - 1) * (limit + src_ds.XSize) + limit

\* a completed run with a threshold flush and a final flush
C2_Witness ==
    /\ pc = "Done"
    /\ limit >= 1
    /\ Len(lasFiles) >= 2
    /\ TotalValidPoints % limit = 0

---------------------------------------------------------------------------
(* C3 *)

\* the scenario run has streamed every row and ended without a writer failure
ScenarioEnded(l) ==
    /\ Scenario(l)
    /\ \/ pc = "Done"
       \/ pc = "Exited" /\ error = "ValueError"

\* C3 as stated: with limit 3 the scenario writes two files, chunk 0 with the
\* first 3 surviving points and chunk 1 with the remaining ones.
C3_TwoFilesOfThree ==
    ScenarioEnded(3) =>
        /\ Len(lasFiles) = 2
        /\ FilePoints(lasFiles[1]) = SubSeq(ExamplePoints, 1, 3)
        /\ FilePoints(lasFiles[2]) = SubSeq(ExamplePoints, 4, 5)

\* C3 as amended: with limit 3 the buffer holds exactly 3 points after row 0,
\* which does not exceed the limit, so the only threshold flush happens after
\* row 1: chunk 0 holds all five surviving points in scan order, and the
\* final flush (chunk index 1) has no point left to write.
C3_OneFileOfFive ==
    ScenarioEnded(3) =>
        /\ Len(lasFiles) = 1
        /\ lasFiles[1].filename = FileName(output_file, 0)
        /\ FilePoints(lasFiles[1]) = ExamplePoints
        /\ BufferPoints = <<>>
        /\ file_i = 1

\* the scenario with limit 3 has streamed both rows
C3_Witness ==
    /\ ScenarioEnded(3)
    /\ Len(progress) = 2
    /\ lasFiles # <<>>

---------------------------------------------------------------------------
(* C4 *)

\* the raster opened and the requested band exists
ValidRun == Opened /\ band \in 1..src_ds.RasterCount

\* C4: a run whose raster opens and whose band is valid, and whose writer
\* does not fail, ends Done (exit status 0, closing message) after one final
\* flush that wrote the final chunk file, whatever the buffer size at the
\* final flush, zero included.
C4_FinalFlushCompletes ==
    (ValidRun /\ limit >= 1 /\ pc \in {"Done", "Exited"} /\ error # "IOError") =>
        /\ pc = "Done"
        /\ exitCode = <<0>>
        /\ stdout[Len(stdout)] = "done"
        /\ lasFiles # <<>>
        /\ lasFiles[Len(lasFiles)].filename = FileName(output_file, file_i)

---------------------------------------------------------------------------
(* C5 *)

\* C5: the buffer never holds more than limit + width points, at the start
\* of a row iteration (and at the final flush) it holds at most limit, and no
\* written file holds more than limit + width points.
C5_BufferBounded ==
    Opened =>
        /\ Len(xvalues) <= limit + src_ds.XSize
        /\ Len(yvalues) = Len(xvalues)
        /\ Len(zvalues) = Len(xvalues)
        /\ pc \in {"Loop", "ReadRow", "FinalFlush"} => Len(xvalues) <= limit
        /\ \A i \in 1..Len(lasFiles) :
              Len(lasFiles[i].x) <= limit + src_ds.XSize

\* after a row the buffer holds exactly limit + width points, limit >= 1
C5_Witness ==
    /\ pc = "Threshold"
    /\ limit >= 1
    /\ Len(xvalues) = limit + src_ds.XSize

---------------------------------------------------------------------------
(* C6 *)

\* number of calls of saveLasFile so far
Flushes == Cardinality({ i \in 1..Len(stdout) : stdout[i] = "writing" })

\* C6: the k-th file written is named {output_base}.{k}.las, no name is
\* written twice, every flush writes exactly one file, and once the run has
\* streamed every row and ended (without a writer failure) the last file
\* written is the one of the final flush.
C6_OneFilePerFlush ==
    limit >= 1 =>
        /\ \A k \in 1..Len(lasFiles) :
              lasFiles[k].filename = FileName(output_file, k - 1)
        /\ \A j, k \in 1..Len(lasFiles) :
              j # k => lasFiles[j].filename # lasFiles[k].filename
        /\ error # "IOError" => Len(lasFiles) = Flushes
        /\ (pc = "Done" \/ (pc = "Exited" /\ error = "ValueError")) =>
              /\ lasFiles # <<>>
              /\ lasFiles[Len(lasFiles)].filename = FileName(output_file, file_i)

---------------------------------------------------------------------------
(* C7 *)

\* o is the floor of the minimum of the non-empty sequence s of fixed-point
\* values: a whole number, not above any element, less than one below some
IsFloorOfMin(o, s) ==
    /\ o % Den = 0
    /\ \A i \in 1..Len(s) : o <= s[i]
    /\ \E i \in 1..Len(s) : s[i] < o + Den

\* C7: the offset of every written file is, per axis, the floor of the
\* minimum over exactly the points of that file, and the scale is the same
\* fixed value on the three axes of every file.
C7_ChunkOffset ==
    \A k \in 1..Len(lasFiles) :
        LET f == lasFiles[k]
        IN  /\ f.x # <<>>
            /\ IsFloorOfMin(f.offset[1], f.x)
            /\ IsFloorOfMin(f.offset[2], f.y)
            /\ IsFloorOfMin(f.offset[3], f.z)
            /\ f.scale[1] = f.scale[2] /\ f.scale[2] = f.scale[3]
            /\ f.scale = lasFiles[1].scale

\* two files with different offsets, the second holding a coordinate that is
\* not a whole number and a minimum above the first file's
C7_Witness ==
    /\ Len(lasFiles) >= 2
    /\ lasFiles[2].offset # lasFiles[1].offset
    /\ \E i \in 1..Len(lasFiles[2].y) : lasFiles[2].y[i] % Den # 0
    /\ \A i \in 1..Len(lasFiles[2].y) :
          \E j \in 1..Len(lasFiles[1].y) : lasFiles[1].y[j] + Den <= lasFiles[2].y[i]

---------------------------------------------------------------------------
(* C8 *)

\* every coefficient of the transform is a whole number
IntegerTransform(t) == \A i \in 1..6 : t[i] % Den = 0

RECURSIVE AxisAlignedRow(_, _)
\* the points of the valid cells of a row by the axis-aligned formula
\* (originX + col * pixelWidth, originY + row * pixelHeight, value)
AxisAlignedRow(row, col) ==
    IF col >= src_ds.XSize THEN <<>>
    ELSE LET t == src_ds.transform
             v == src_ds.cells[row + 1][col + 1]
             rest == AxisAlignedRow(row, col + 1)
         IN  IF v # no_data_value
             THEN << <<t[1] + col * t[2], t[4] + row * t[6], v>> >> \o rest
             ELSE rest

\* C8: for an axis-aligned transform with integer coefficients the points a
\* scanline adds to the buffer are (originX + col*pixelWidth,
\* originY + row*pixelHeight, cellValue) for its non-sentinel cells, also
\* for pixelWidth zero or negative; and the 4 x 2 scenario with limit 100
\* ends with the five listed points, in that order, in a single file.
C8_AxisAlignedPoints ==
    /\ (pc = "Threshold" /\ IntegerTransform(src_ds.transform)
                         /\ src_ds.transform[3] = 0) =>
          LET row == AxisAlignedRow(y, 0)
              n   == Len(BufferPoints)
          IN  /\ n >= Len(row)
              /\ SubSeq(BufferPoints, n - Len(row) + 1, n) = row
    /\ (Scenario(100) /\ pc = "Done") =>
          /\ Len(lasFiles) = 1
          /\ FilePoints(lasFiles[1]) = ExamplePoints

\* the scenario with limit 100 has completed
C8_Witness ==
    /\ Scenario(100)
    /\ pc = "Done"
    /\ lasFiles # <<>>

---------------------------------------------------------------------------
(* C9 *)

\* C9: the progress reported for the last row, and for no earlier row, is
\* 100%: the reported iteration equals the total.
C9_ProgressComplete ==
    (Opened /\ progress # <<>>) =>
        \A i \in 1..Len(progress) :
            (progress[i].iteration = progress[i].total /\ progress[i].percents = 1000)
                <=> (i = src_ds.YSize)

---------------------------------------------------------------------------
(* C10 *)

\* C10: the run gets from Validating to the scanline loop exactly when
\* 1 <= band <= RasterCount; for any other band the run ends with the
\* out-of-range message and exit status 1, no scanline read.
C10_BandValidated ==
    /\ InLoop => band \in 1..src_ds.RasterCount
    /\ (Opened /\ band \notin 1..src_ds.RasterCount /\ pc = "Exited") =>
          /\ stdout = <<"band_out_of_index">>
          /\ exitCode = <<1>>
          /\ error = "none"
          /\ progress = <<>>

---------------------------------------------------------------------------
(* C11 *)

\* the invocation cannot get to the scanline loop: an argument is missing,
\* or the raster did not open, or the band is out of range
FailsBeforeStreaming ==
    \/ argc < 3
    \/ pc = "Exited" /\ ~Opened
    \/ Opened /\ band \notin 1..src_ds.RasterCount

\* C11: a run that fails before the scanline loop (missing argument, raster
\* not opened, band out of range) never gets to the loop or to Done, and when
\* it has ended its exit status is not 0, no file was written or created and
\* no scanline was read.
C11_EarlyFailure ==
    FailsBeforeStreaming =>
        /\ ~InLoop
        /\ pc # "Done"
        /\ argc < 3 => ~Opened
        /\ lasFiles = <<>>
        /\ openFile = <<>>
        /\ progress = <<>>
        /\ xvalues = <<>>
        /\ y = -1
        /\ pc = "Exited" => (Len(exitCode) = 1 /\ exitCode[1] # 0)

\* the run ended on the out-of-range band message
C11_Witness ==
    /\ pc = "Exited"
    /\ Opened
    /\ band > src_ds.RasterCount
    /\ stdout = <<"band_out_of_index">>
    /\ exitCode = <<1>>

---------------------------------------------------------------------------
(* C12 *)

\* the state of a run whose writer failed on chunk k: it has ended with a
\* nonzero status, and the closed files are exactly chunks 0..k-1
WriterFailedState ==
    error = "IOError" =>
        /\ pc = "Exited"
        /\ exitCode = <<1>>
        /\ stdout[Len(stdout)] = "writing"
        /\ Len(lasFiles) = file_i
        /\ \A k \in 1..Len(lasFiles) :
              lasFiles[k].filename = FileName(output_file, k - 1)

\* the step in which the writer fails leaves the closed files, the scanline
\* position and the buffers as they are; after it no step is taken
WriterFailureStep ==
    /\ error' = "IOError" =>
          /\ lasFiles' = lasFiles
          /\ y' = y
          /\ progress' = progress
          /\ BufferPoints' = BufferPoints
          /\ file_i' = file_i
    /\ error = "IOError" => UNCHANGED vars

\* C12: when the writer fails on chunk k, in a threshold flush or in the
\* final flush, the run halts at once: no scanline is read and no file is
\* written afterwards, Done is not reached, the failure is neither retried
\* nor swallowed, and the files of chunks 0..k-1 stay as they were.
C12_WriteFailureHalts ==
    /\ [](WriterFailedState)
    /\ [][WriterFailureStep]_vars

\* the writer failed in a threshold flush after an earlier chunk was written,
\* with rows still unread
C12_Witness ==
    /\ error = "IOError"
    /\ Len(lasFiles) >= 1
    /\ y + 1 < src_ds.YSize

---------------------------------------------------------------------------
(* C13 *)

\* the files written by threshold flushes: the first file_i closed files
ThresholdChunk(k) == k \in 1..Len(lasFiles) /\ k <= file_i

\* every file of a threshold flush holds more than limit points, which are
\* the surviving points of the consecutive rows a..b-1 for some a < b
WholeRowChunks ==
    Opened =>
        \A k \in 1..Len(lasFiles) :
            ThresholdChunk(k) =>
                /\ Len(lasFiles[k].x) > limit
                /\ \E a, b \in 0..src_ds.YSize :
                      /\ a < b
                      /\ ScanOrder(a) \o FilePoints(lasFiles[k]) = ScanOrder(b)

\* the flush check after a row (writer failures aside): a file holding the
\* whole buffer is written and the buffer emptied exactly when the buffer
\* holds more than limit points; and files are written by no step other than
\* the check after a row and the final flush
ThresholdStep ==
    /\ (pc = "Threshold" /\ error' # "IOError") =>
          IF Len(xvalues) > limit
          THEN /\ Len(lasFiles') = Len(lasFiles) + 1
               /\ FilePoints(lasFiles'[Len(lasFiles')]) = BufferPoints
               /\ xvalues' = <<>> /\ yvalues' = <<>> /\ zvalues' = <<>>
          ELSE /\ lasFiles' = lasFiles
               /\ BufferPoints' = BufferPoints
    /\ lasFiles' # lasFiles => pc \in {"Threshold", "FinalFlush"}

\* C13: the threshold flush after a row happens exactly when the buffer holds
\* strictly more than limit points (exactly limit points are kept), only at
\* row boundaries, so every non-final file holds more than limit points made
\* of whole consecutive rows, and the buffer is empty right after the flush.
C13_StrictThreshold ==
    /\ [](WholeRowChunks)
    /\ [][ThresholdStep]_vars

\* after an earlier threshold flush, a buffer of exactly limit points has
\* passed the check unflushed
C13_Witness ==
    /\ pc = "Loop"
    /\ limit >= 1
    /\ file_i >= 1
    /\ Len(xvalues) = limit

---------------------------------------------------------------------------
(* C14 *)

\* the columns (1-based) of a row whose value differs from the sentinel
ValidColumns(row) ==
    { c \in 1..src_ds.XSize : src_ds.cells[row + 1][c] # no_data_value }

\* reading a scanline keeps the buffer and appends one point per valid column,
\* in increasing column order: the k-th appended point is the one of the
\* valid column that has k-1 valid columns before it
ScanlineFilterStep ==
    pc = "ReadRow" =>
        LET before == Len(BufferPoints)
            added  == SubSeq(BufferPoints', before + 1, Len(BufferPoints'))
            V      == ValidColumns(y)
        IN  /\ SubSeq(BufferPoints', 1, before) = BufferPoints
            /\ Len(added) = Cardinality(V)
            /\ \A k \in 1..Len(added) :
                  \E c \in V :
                      /\ Cardinality({ c2 \in V : c2 < c }) = k - 1
                      /\ added[k] = CellPoint(c - 1, y)
            /\ V = {} => added = <<>>
            /\ V = 1..src_ds.XSize =>
                  /\ Len(added) = src_ds.XSize
                  /\ \A c \in 1..src_ds.XSize : added[c] = CellPoint(c - 1, y)

\* C14: a scanline adds to the buffer as many points as it has values
\* different from the sentinel, in increasing column order: none when every
\* value is the sentinel, exactly width (one per column, in column order)
\* when none is.
C14_ScanlineFilter == [][ScanlineFilterStep]_vars

\* a scanline of three or more columns with a no-data cell between two valid
\* ones has been appended
C14_Witness ==
    /\ pc = "Threshold"
    /\ \E c \in ValidColumns(y) : \E d \in ValidColumns(y) :
          /\ c + 1 < d
          /\ (c + 1) \notin ValidColumns(y)
    /\ Len(xvalues) >= Cardinality(ValidColumns(y))

---------------------------------------------------------------------------
(* C15 *)

\* the rows read so far are 0, 1, ... in this order, each once, and the final
\* flush is reached only when every row has been read and checked
RowOrderState ==
    Opened =>
        /\ \A i \in 1..Len(progress) : progress[i].iteration = i - 1
        /\ Len(progress) <= src_ds.YSize
        /\ InLoop => y = (IF pc = "ReadRow" THEN Len(progress)
                                             ELSE Len(progress) - 1)
        /\ pc \in {"FinalFlush", "Done"} =>
              /\ Len(progress) = src_ds.YSize
              /\ y = src_ds.YSize - 1

\* a row is read only after the flush check of the row before it, its points
\* are appended in the step that reads it, and its flush check is the next
\* step; the final flush starts from the loop head, not from inside a row
RowOrderStep ==
    /\ pc' = "ReadRow" => (pc = "Loop" /\ y' = y + 1)
    /\ y' # y => pc' = "ReadRow"
    /\ pc = "ReadRow" =>
          /\ pc' = "Threshold"
          /\ Len(progress') = Len(progress) + 1
          /\ progress'[Len(progress')].iteration = y
    /\ progress' # progress => pc = "ReadRow"
    /\ pc = "Threshold" => (pc' \in {"Loop", "Exited"} /\ y' = y)
    /\ pc' = "FinalFlush" => pc = "Loop"
    /\ BufferPoints' # BufferPoints => pc \in {"ReadRow", "Threshold"}

\* C15: the scanlines are read in the order 0, 1, ..., height-1, each once;
\* the filtering, appending and flush check of a row are done before the next
\* row is read; the final flush comes only after row height-1 was processed.
C15_RowOrder ==
    /\ [](RowOrderState)
    /\ [][RowOrderStep]_vars

\* the final flush is reached after three or more rows
C15_Witness ==
    /\ pc = "FinalFlush"
    /\ src_ds.YSize >= 3
    /\ Len(progress) = src_ds.YSize

---------------------------------------------------------------------------
(* C16 *)

\* C16 as stated: the chunk index is 0 at first and every flush, the final
\* one included, adds one to it: while no flush has failed it equals the
\* number of files written, also when the run is Done.
C16_IndexCountsAllFlushes ==
    error = "none" => file_i = Len(lasFiles)

\* C16 as amended: the chunk index is 0 at first and is advanced by one by
\* every threshold flush, and not by the final flush: it equals the number of
\* threshold flushes completed, it is the index in the name of the next (or,
\* once Done, the last) file, and at Done it is the number of files written
\* minus one.
C16_IndexCountsThresholdFlushes ==
    /\ pc # "Done" => file_i = Len(lasFiles)
    /\ pc = "Done" =>
          /\ file_i = Len(lasFiles) - 1
          /\ lasFiles[Len(lasFiles)].filename = FileName(output_file, file_i)
    /\ pc \in {"ArgCheck", "Open", "Validate", "GetBand"} => file_i = 0

\* a completed run with a threshold flush before the final flush
C16_Witness ==
    /\ pc = "Done"
    /\ file_i >= 1
    /\ Len(lasFiles) = file_i + 1

====
